---------------------------- MODULE Spec2Model ----------------------------
(***************************************************************************)
(* Model of the SSH banner server of src/main.go: the Bubble Tea model of  *)
(* one session (Update, View), the lolcat renderer, and the per-session    *)
(* timer goroutine that feeds tick messages to the program's event loop.   *)
(*                                                                         *)
(* A Go string is a sequence of bytes (0..255); a rune is a code point.    *)
(* A colour is the HSV triple the session was created with, rotated by     *)
(* AdjustHue; hues are whole degrees (every amount the program adds is a   *)
(* whole number of degrees).                                               *)
(***************************************************************************)
EXTENDS Integers, Sequences, FiniteSets, TLC

(* ------------------------------ bounds --------------------------------- *)
\* the timer goroutine stops counting at MaxTick (the counter is a uint)
MaxTick == 10
\* longest text, in bytes, handed to lolcat in SpecLolcat
MaxLen == 4
\* longest record of handled messages kept in SpecSerial
MaxLog == 6

(* ------------------------- program constants --------------------------- *)
step == 40
gradient == 6
angle == 6

(* ------------------------------ graphic -------------------------------- *)
\* the banner, source line by source line, as its UTF-8 bytes
graphicLine1 ==
  << 226, 160, 128, 226, 160, 128, 226, 160, 128, 226, 160, 128, 226, 160, 128, 226, 160,
     128, 226, 160, 128, 226, 160, 128, 226, 160, 128, 226, 160, 128, 226, 160, 128, 226,
     160, 128, 226, 160, 128, 226, 160, 128, 226, 163, 128, 226, 160, 128, 226, 160, 128,
     226, 160, 128, 226, 160, 128, 226, 160, 128, 226, 160, 128, 226, 160, 128, 226, 160,
     128, 226, 160, 128, 10 >>
graphicLine2 ==
  << 226, 160, 128, 226, 160, 128, 226, 160, 128, 226, 162, 160, 226, 161, 190, 226, 160,
     178, 226, 160, 182, 226, 163, 164, 226, 163, 128, 226, 163, 160, 226, 163, 164, 226,
     163, 164, 226, 163, 164, 226, 161, 191, 226, 160, 155, 226, 160, 191, 226, 161, 180,
     226, 160, 190, 226, 160, 155, 226, 162, 187, 226, 161, 134, 226, 160, 128, 226, 160,
     128, 226, 160, 128, 32, 32, 95, 95, 95, 95, 95, 32, 32, 32, 32, 32, 32, 95, 95, 32, 32,
     32, 32, 95, 95, 95, 32, 32, 32, 32, 32, 32, 32, 32, 32, 32, 32, 32, 32, 32, 32, 32, 32,
     32, 32, 32, 32, 32, 32, 32, 95, 95, 32, 32, 10 >>
graphicLine3 ==
  << 226, 160, 128, 226, 160, 128, 226, 160, 128, 226, 163, 188, 226, 160, 129, 226, 160,
     128, 226, 160, 128, 32, 226, 160, 137, 226, 160, 129, 226, 160, 128, 226, 162, 128, 226,
     163, 191, 226, 160, 144, 226, 161, 191, 226, 163, 191, 226, 160, 191, 226, 163, 182,
     226, 163, 164, 226, 163, 164, 226, 163, 183, 226, 161, 128, 226, 160, 128, 226, 160,
     128, 226, 160, 128, 47, 32, 95, 95, 95, 47, 95, 95, 95, 32, 32, 47, 32, 47, 95, 32, 32,
     47, 32, 95, 32, 92, 32, 95, 32, 32, 32, 32, 95, 95, 32, 95, 95, 95, 32, 32, 95, 95, 95,
     32, 32, 95, 95, 95, 47, 32, 47, 32, 32, 10 >>
graphicLine4 ==
  << 226, 160, 128, 226, 160, 128, 226, 160, 128, 226, 162, 185, 226, 161, 182, 226, 160,
     128, 226, 160, 128, 226, 160, 128, 226, 160, 128, 226, 160, 128, 226, 160, 128, 226,
     160, 136, 226, 162, 175, 226, 163, 161, 226, 163, 191, 226, 163, 191, 226, 163, 128,
     226, 163, 184, 226, 163, 191, 226, 163, 166, 226, 162, 147, 226, 161, 159, 226, 160,
     128, 226, 160, 128, 47, 32, 40, 95, 32, 47, 47, 32, 45, 95, 41, 47, 32, 95, 95, 47, 32,
     47, 32, 95, 95, 95, 47, 124, 32, 124, 47, 124, 47, 32, 47, 47, 32, 95, 32, 92, 47, 32,
     45, 95, 41, 47, 32, 95, 32, 32, 47, 32, 32, 32, 10 >>
graphicLine5 ==
  << 226, 160, 128, 226, 160, 128, 226, 162, 128, 226, 161, 191, 226, 160, 128, 226, 160,
     128, 226, 160, 128, 226, 160, 128, 226, 160, 128, 226, 160, 128, 226, 160, 128, 226,
     160, 128, 226, 160, 128, 226, 160, 128, 226, 160, 128, 226, 160, 136, 226, 160, 137,
     226, 160, 185, 226, 163, 141, 226, 163, 173, 226, 163, 190, 226, 160, 129, 226, 160,
     128, 32, 92, 95, 95, 95, 47, 32, 92, 95, 95, 47, 32, 92, 95, 95, 47, 32, 47, 95, 47, 32,
     32, 32, 32, 124, 95, 95, 44, 95, 95, 47, 47, 95, 47, 47, 95, 47, 92, 95, 95, 47, 32, 92,
     95, 44, 95, 47, 226, 160, 128, 10 >>
graphicLine6 ==
  << 226, 160, 128, 226, 163, 128, 226, 163, 184, 226, 163, 135, 226, 160, 128, 226, 160,
     128, 226, 160, 128, 226, 160, 128, 226, 160, 128, 226, 160, 128, 226, 160, 128, 226,
     160, 128, 226, 160, 128, 226, 160, 128, 226, 160, 128, 226, 160, 128, 226, 160, 128,
     226, 160, 128, 226, 160, 128, 226, 162, 128, 226, 163, 184, 226, 163, 183, 226, 163,
     164, 226, 161, 128, 32, 32, 32, 95, 95, 95, 32, 32, 32, 32, 32, 32, 32, 32, 32, 32, 32,
     32, 32, 32, 32, 32, 32, 32, 32, 32, 32, 32, 32, 10 >>
graphicLine7 ==
  << 226, 160, 136, 226, 160, 137, 226, 160, 185, 226, 163, 143, 226, 161, 129, 226, 160,
     128, 226, 162, 184, 226, 163, 191, 226, 160, 128, 226, 160, 128, 226, 160, 128, 226,
     162, 128, 226, 161, 128, 226, 160, 128, 226, 160, 128, 226, 160, 128, 226, 163, 191,
     226, 160, 134, 226, 160, 128, 226, 162, 128, 226, 163, 184, 226, 163, 135, 226, 163,
     128, 226, 160, 128, 32, 32, 47, 32, 95, 32, 41, 32, 95, 95, 95, 32, 32, 95, 95, 95, 32,
     95, 95, 95, 32, 95, 95, 95, 32, 32, 32, 32, 32, 32, 10 >>
graphicLine8 ==
  << 226, 160, 128, 226, 160, 144, 226, 160, 139, 226, 162, 187, 226, 163, 133, 226, 163,
     132, 226, 162, 128, 226, 163, 128, 226, 163, 128, 226, 161, 128, 226, 160, 128, 226,
     160, 175, 226, 160, 189, 226, 160, 130, 226, 162, 128, 226, 163, 128, 226, 163, 128,
     226, 161, 128, 226, 160, 128, 226, 163, 164, 226, 163, 191, 226, 160, 128, 226, 160,
     137, 226, 160, 128, 32, 47, 32, 95, 32, 32, 124, 47, 32, 95, 32, 92, 47, 95, 32, 47, 47,
     95, 32, 47, 47, 32, 95, 32, 92, 32, 32, 32, 32, 32, 10 >>
graphicLine9 ==
  << 226, 160, 128, 226, 160, 128, 226, 160, 180, 226, 160, 155, 226, 160, 153, 226, 163,
     179, 226, 160, 139, 226, 160, 137, 226, 160, 137, 226, 160, 153, 226, 163, 134, 226,
     160, 128, 226, 160, 128, 226, 162, 176, 226, 161, 159, 226, 160, 137, 226, 160, 136,
     226, 160, 153, 226, 162, 183, 226, 160, 159, 226, 160, 137, 226, 160, 153, 226, 160,
     130, 226, 160, 128, 47, 95, 95, 95, 95, 47, 32, 92, 95, 95, 95, 47, 47, 95, 95, 47, 47,
     95, 95, 47, 92, 95, 95, 95, 47, 32, 32, 32, 32, 32, 10 >>
graphicLine10 ==
  << 226, 160, 128, 226, 160, 128, 226, 160, 128, 226, 160, 128, 226, 160, 128, 226, 162,
     187, 226, 163, 132, 226, 163, 160, 226, 163, 164, 226, 163, 180, 226, 160, 159, 226,
     160, 155, 226, 160, 155, 226, 160, 155, 226, 162, 167, 226, 163, 164, 226, 163, 164,
     226, 163, 128, 226, 161, 190, 226, 160, 129, 226, 160, 128, 226, 160, 128, 226, 160,
     128, 226, 160, 128, 10 >>
graphic ==
  graphicLine1 \o graphicLine2 \o graphicLine3 \o graphicLine4 \o graphicLine5 \o
  graphicLine6 \o graphicLine7 \o graphicLine8 \o graphicLine9 \o graphicLine10

(* --------------------- strings, runes and UTF-8 ------------------------ *)
NL == 10
RuneError == 65533
UTFMax == 1114111

InRange(b, lo, hi) == lo <= b /\ b <= hi

\* range of the second byte that the first byte b0 of a sequence allows
SecondLo(b0) == IF b0 = 224 THEN 160 ELSE IF b0 = 240 THEN 144 ELSE 128
SecondHi(b0) == IF b0 = 237 THEN 159 ELSE IF b0 = 244 THEN 143 ELSE 191

\* the rune that starts at byte i of s and the number of bytes it takes;
\* a byte that starts no valid sequence decodes to RuneError, one byte wide
DecodeRune(s, i) ==
  LET b0 == s[i]
      has(n) == i + n <= Len(s)
      cont(n) == InRange(s[i + n], 128, 191)
      bad == [r |-> RuneError, size |-> 1]
  IN  IF b0 < 128 THEN [r |-> b0, size |-> 1]
      ELSE IF InRange(b0, 194, 223) THEN
        IF has(1) /\ cont(1)
          THEN [r |-> (b0 - 192) * 64 + (s[i + 1] - 128), size |-> 2]
          ELSE bad
      ELSE IF InRange(b0, 224, 239) THEN
        IF has(2) /\ InRange(s[i + 1], SecondLo(b0), SecondHi(b0)) /\ cont(2)
          THEN [r |-> (b0 - 224) * 4096 + (s[i + 1] - 128) * 64 + (s[i + 2] - 128),
                size |-> 3]
          ELSE bad
      ELSE IF InRange(b0, 240, 244) THEN
        IF has(3) /\ InRange(s[i + 1], SecondLo(b0), SecondHi(b0)) /\ cont(2) /\ cont(3)
          THEN [r |-> (b0 - 240) * 262144 + (s[i + 1] - 128) * 4096
                      + (s[i + 2] - 128) * 64 + (s[i + 3] - 128),
                size |-> 4]
          ELSE bad
      ELSE bad

\* mutant of Runes: the text is walked byte by byte
RunesBytewise(s) == s

\* one step of the conversion: decode the rune at byte i, if any is left
RunesStep(s, st) ==
  IF st.i > Len(s) THEN st
  ELSE LET d == DecodeRune(s, st.i)
       IN  [i |-> st.i + d.size, rs |-> Append(st.rs, d.r)]

\* n steps of the conversion, one after the other: the first half of them,
\* then (its result in hand) the rest
RECURSIVE RunesSteps(_, _, _)
RunesSteps(s, n, st) ==
  IF n = 0 THEN st
  ELSE IF n = 1 THEN RunesStep(s, st)
  ELSE LET half == RunesSteps(s, n \div 2, st)
       IN  IF half.i > 0 THEN RunesSteps(s, n - (n \div 2), half) ELSE half

\* []rune(msg): a string of n bytes holds at most n runes
Runes(s) == RunesSteps(s, Len(s), [i |-> 1, rs |-> <<>>]).rs

\* string(c) and strings.Builder.WriteRune(c): the UTF-8 bytes of rune c
EncodeRune(c) ==
  LET r == IF c < 0 \/ c > UTFMax \/ InRange(c, 55296, 57343) THEN RuneError ELSE c
  IN  IF r < 128 THEN << r >>
      ELSE IF r < 2048 THEN << 192 + (r \div 64), 128 + (r % 64) >>
      ELSE IF r < 65536
        THEN << 224 + (r \div 4096), 128 + ((r \div 64) % 64), 128 + (r % 64) >>
        ELSE << 240 + (r \div 262144), 128 + ((r \div 4096) % 64),
                128 + ((r \div 64) % 64), 128 + (r % 64) >>

(* ------------------------------ colours -------------------------------- *)
\* noire.NewHSV(h, s, v)
NewHSV(h, s, v) == [h |-> h, s |-> s, v |-> v]

\* mutant of AdjustHue: wraps only above 360, so a hue of 360 is kept
AdjustHueAbove(c, degrees) ==
  [c EXCEPT !.h = IF c.h + degrees > 360 THEN c.h + degrees - 360 ELSE c.h + degrees]

\* Color.AdjustHue(degrees): the hue rotated by degrees, wrapping modulo 360
AdjustHue(c, degrees) == [c EXCEPT !.h = (c.h + degrees) % 360]

\* Color.Hex(): the colour model conversion hsvToHex, kept symbolic
Hex(c) == << "hex", c.h, c.s, c.v >>

\* "#" + color.Hex() as a lipgloss.Color
noireColorToLipglossColor(color) == << "#", Hex(color) >>

(* ------------------------------- styles -------------------------------- *)
NoColor == << "none" >>

\* renderer.NewStyle()
NewStyle == [fg |-> NoColor]

\* Style.Foreground(c)
Foreground(style, c) == [style EXCEPT !.fg = c]

\* Style.Render(text): text drawn in the style's foreground colour
Render(style, text) == [styled |-> TRUE, fg |-> style.fg, text |-> text]

\* text written to the output as it is
Plain(text) == [styled |-> FALSE, fg |-> NoColor, text |-> text]

(* ------------------------------- lolcat -------------------------------- *)
\* mutant of lolcatBody: charColor is not set back to rowColor at a newline
lolcatBodyNoReset(st, c, style, ang, grad) ==
  IF c = NL
    THEN [st EXCEPT !.out = Append(@, Plain(EncodeRune(c))),
                    !.rowColor = AdjustHue(st.rowColor, ang)]
    ELSE [st EXCEPT
            !.out = Append(@, Render(Foreground(style,
                                 noireColorToLipglossColor(st.charColor)),
                               EncodeRune(c))),
            !.charColor = AdjustHue(st.charColor, grad)]

\* mutant of lolcatBody: the continue is missing, so a newline is also
\* rendered in colour and advances charColor
lolcatBodyNoContinue(st, c, style, ang, grad) ==
  LET row == IF c = NL THEN AdjustHue(st.rowColor, ang) ELSE st.rowColor
      cur == IF c = NL THEN row ELSE st.charColor
      nl == IF c = NL THEN << Plain(EncodeRune(c)) >> ELSE << >>
  IN  [st EXCEPT
         !.out = @ \o nl \o << Render(Foreground(style, noireColorToLipglossColor(cur)),
                                      EncodeRune(c)) >>,
         !.rowColor = row,
         !.charColor = AdjustHue(cur, grad)]

\* mutant of lolcatBody: the row colour is kept in *initialColor instead of
\* the local copy, so a newline rotates the caller's colour
lolcatBodyThroughPointer(st, c, style, ang, grad) ==
  IF c = NL
    THEN LET row == AdjustHue(st.rowColor, ang)
         IN  [st EXCEPT !.out = Append(@, Plain(EncodeRune(c))),
                        !.rowColor = row,
                        !.charColor = row,
                        !.initialColor = row]
    ELSE [st EXCEPT
            !.out = Append(@, Render(Foreground(style,
                                 noireColorToLipglossColor(st.charColor)),
                               EncodeRune(c))),
            !.charColor = AdjustHue(st.charColor, grad)]

\* one iteration of the loop over the runes of msg
lolcatBody(st, c, style, ang, grad) ==
  IF c = NL
    THEN LET row == AdjustHue(st.rowColor, ang)
         IN  [st EXCEPT !.out = Append(@, Plain(EncodeRune(c))),
                        !.rowColor = row,
                        !.charColor = row]
    ELSE [st EXCEPT
            !.out = Append(@, Render(Foreground(style,
                                 noireColorToLipglossColor(st.charColor)),
                               EncodeRune(c))),
            !.charColor = AdjustHue(st.charColor, grad)]

\* the loop over the runes rs[lo..hi], in order, from loop state st: the
\* iterations up to mid, then (their result in hand) those after mid
RECURSIVE lolcatLoop(_, _, _, _, _, _, _)
lolcatLoop(rs, lo, hi, st, style, ang, grad) ==
  IF lo > hi THEN st
  ELSE IF lo = hi THEN lolcatBody(st, rs[lo], style, ang, grad)
  ELSE LET mid == (lo + hi) \div 2
           half == lolcatLoop(rs, lo, mid, st, style, ang, grad)
       IN  IF Len(half.out) >= 0
             THEN lolcatLoop(rs, mid + 1, hi, half, style, ang, grad)
             ELSE half

\* lolcat with the two rotation amounts as parameters; the result keeps the
\* builder's contents (out), both colour cursors, and the colour that
\* initialColor points to when the function returns
lolcatWith(msg, initialColor, style, ang, grad) ==
  LET rs == Runes(msg)
  IN  lolcatLoop(rs, 1, Len(rs),
                 [out |-> <<>>, rowColor |-> initialColor, charColor |-> initialColor,
                  initialColor |-> initialColor],
                 style, ang, grad)

lolcat(msg, initialColor, style) == lolcatWith(msg, initialColor, style, angle, gradient)

(* -------------------------------- model -------------------------------- *)
\* what a session can be started with, and what the terminal layer can send
Terms == {"xterm-256color", "vt100"}
Addrs == {[net |-> "tcp", ip |-> "192.0.2.7", port |-> 50022],
          [net |-> "tcp", ip |-> "2001:db8::1", port |-> 22]}
Sizes == {<< 80, 24 >>, << 132, 50 >>}
QuitKeys == {"q", "ctrl+c"}
Keys == QuitKeys \cup {"a", "Q"}

\* the three kinds of message Update tells apart, and tea.Quit / nil
WindowSizeMsg(w, h) == [type |-> "WindowSizeMsg", Width |-> w, Height |-> h]
KeyMsg(k) == [type |-> "KeyMsg", key |-> k]
tickMsg(n) == [type |-> "tickMsg", n |-> n]
Quit == "tea.Quit"
Nil == "nil"

\* the model teaHandler builds for a session
NewModel(term, address, width, height) ==
  [term |-> term, address |-> address, width |-> width, height |-> height,
   tick |-> 0,
   color |-> NewHSV(0, 66, 100),
   style |-> NewStyle,
   txtStyle |-> Foreground(NewStyle, << "10" >>),
   quitStyle |-> Foreground(NewStyle, << "8" >>)]

\* mutant of UpdateKeyMsg: "ctrl+c" left out of the case list
UpdateKeyMsgOnlyQ(mdl, msg) ==
  IF msg.key = "q" THEN [m |-> mdl, cmd |-> Quit] ELSE [m |-> mdl, cmd |-> Nil]

\* mutant of UpdateKeyMsg: the return sits outside the case list, so any key quits
UpdateKeyMsgAnyKey(mdl, msg) == [m |-> mdl, cmd |-> Quit]

\* mutant of UpdateTickMsg: the colour AdjustHue returns is not stored
UpdateTickMsgDropped(mdl, msg) ==
  [m |-> [mdl EXCEPT !.tick = msg.n], cmd |-> Nil]

\* mutant of UpdateWindowSizeMsg: width and height taken from the wrong fields
UpdateWindowSizeMsgSwapped(mdl, msg) ==
  [m |-> [mdl EXCEPT !.height = msg.Width, !.width = msg.Height], cmd |-> Nil]

\* model.Update, case tea.WindowSizeMsg
UpdateWindowSizeMsg(mdl, msg) ==
  [m |-> [mdl EXCEPT !.height = msg.Height, !.width = msg.Width], cmd |-> Nil]

\* model.Update, case tea.KeyMsg
UpdateKeyMsg(mdl, msg) ==
  IF msg.key \in QuitKeys THEN [m |-> mdl, cmd |-> Quit] ELSE [m |-> mdl, cmd |-> Nil]

\* model.Update, case tickMsg
UpdateTickMsg(mdl, msg) ==
  [m |-> [mdl EXCEPT !.tick = msg.n, !.color = AdjustHue(mdl.color, step)],
   cmd |-> Nil]

\* model.Update: the new model and the command
Update(mdl, msg) ==
  IF msg.type = "WindowSizeMsg" THEN UpdateWindowSizeMsg(mdl, msg)
  ELSE IF msg.type = "KeyMsg" THEN UpdateKeyMsg(mdl, msg)
  ELSE IF msg.type = "tickMsg" THEN UpdateTickMsg(mdl, msg)
  ELSE [m |-> mdl, cmd |-> Nil]

\* mutant of View: the newline between the banner and the address line is missing
ViewNoSeparator(mdl) ==
  lolcat(graphic, mdl.color, mdl.style).out
    \o << Render(mdl.txtStyle, << "Your IP is ", mdl.address.ip >>) >>
    \o << Plain(<< NL >>) >>
    \o << Render(mdl.quitStyle, << "Press 'q' to quit", NL >>) >>

\* mutant of View: the banner is drawn from the colour the session started with
ViewStale(mdl) ==
  lolcat(graphic, NewHSV(0, 66, 100), mdl.style).out
    \o << Plain(<< NL >>) >>
    \o << Render(mdl.txtStyle, << "Your IP is ", mdl.address.ip >>) >>
    \o << Plain(<< NL >>) >>
    \o << Render(mdl.quitStyle, << "Press 'q' to quit", NL >>) >>

\* model.View: the frame, piece by piece; the type assertion on the address
\* panics for an address that is no *net.TCPAddr
\* mutant of View: the address is asserted to be a *net.UDPAddr
ViewUDP(mdl) ==
  IF mdl.address.net # "udp" THEN << "panic" >>
  ELSE LET msg == << "Your IP is ", mdl.address.ip >>
       IN  lolcat(graphic, mdl.color, mdl.style).out
             \o << Plain(<< NL >>) >>
             \o << Render(mdl.txtStyle, msg) >>
             \o << Plain(<< NL >>) >>
             \o << Render(mdl.quitStyle, << "Press 'q' to quit", NL >>) >>

View(mdl) ==
  IF mdl.address.net # "tcp" THEN << "panic" >>
  ELSE LET msg == << "Your IP is ", mdl.address.ip >>
       IN  lolcat(graphic, mdl.color, mdl.style).out
             \o << Plain(<< NL >>) >>
             \o << Render(mdl.txtStyle, msg) >>
             \o << Plain(<< NL >>) >>
             \o << Render(mdl.quitStyle, << "Press 'q' to quit", NL >>) >>

(* ------------------------------- session ------------------------------- *)
VARIABLES
  m,          \* the model the program's event loop holds
  status,     \* "Running" while the event loop runs, then "Terminated"
  quitCmd,    \* Update has returned tea.Quit and its QuitMsg is not handled yet
  timerPc,    \* where the timer goroutine of newProg is
  timerTick,  \* its local variable tick
  ticks,      \* number of tickMsg the event loop has passed to Update
  last,       \* the message most recently passed to Update, and its result
  text,       \* SpecLolcat: the text handed to lolcat
  initial,    \* SpecLolcat: the colour handed to lolcat
  result,     \* SpecLolcat: what lolcat returned, once it has
  peer,       \* SpecSessions: a second session of the same server
  proc,       \* SpecMain: the process, from main's first line to its end
  log,        \* SpecSerial: the model at the start and the messages handled since
  frame       \* SpecRender: the frame drawn since the last message, if one was

vars == << m, status, quitCmd, timerPc, timerTick, ticks, last, text, initial, result,
           peer, proc, log, frame >>
sessionVars == << m, status, quitCmd, timerPc, timerTick, ticks, last >>
lolcatVars == << text, initial, result >>
outsideVars == << lolcatVars, peer, proc >>

None == [type |-> "none"]
LogOff == [on |-> FALSE, start |-> None, msgs |-> << >>]
NoFrame == [drawn |-> FALSE, out |-> << >>]

\* no second session and no process are looked at
Alone == peer = None /\ proc = None

\* no record of messages is kept and no frame has been drawn
Unobserved == log = LogOff /\ frame = NoFrame

\* lolcat has not been called
LolcatIdle ==
  /\ text = << >>
  /\ initial = NewHSV(0, 66, 100)
  /\ result = None

\* a session that teaHandler and newProg have just set up
InitWith(terms, addrs, sizes) ==
  /\ \E term \in terms, address \in addrs, size \in sizes :
       m = NewModel(term, address, size[1], size[2])
  /\ status = "Running"
  /\ quitCmd = FALSE
  /\ timerPc = "start"
  /\ timerTick = 0
  /\ ticks = 0
  /\ last = None

Init == InitWith(Terms, Addrs, Sizes) /\ LolcatIdle /\ Alone /\ Unobserved

\* mutant of Handle: Update is called on the copy of the model that the
\* message before this one was handled on, so that message's effect is lost
HandleStale(msg) ==
  LET old == IF last = None THEN m ELSE last.before
      r == Update(old, msg)
  IN  /\ status = "Running"
      /\ m' = r.m
      /\ quitCmd' = (quitCmd \/ r.cmd = Quit)
      /\ ticks' = IF msg.type = "tickMsg" THEN ticks + 1 ELSE ticks
      /\ last' = [msg |-> msg, before |-> m, cmd |-> r.cmd]
      /\ log.on => Len(log.msgs) < MaxLog
      /\ log' = IF log.on THEN [log EXCEPT !.msgs = Append(@, msg)] ELSE log
      /\ frame' = NoFrame
      /\ UNCHANGED status

\* the event loop takes msg off its channel and passes it to Update
Handle(msg) ==
  LET r == Update(m, msg)
  IN  /\ status = "Running"
      /\ m' = r.m
      /\ quitCmd' = (quitCmd \/ r.cmd = Quit)
      /\ ticks' = IF msg.type = "tickMsg" THEN ticks + 1 ELSE ticks
      /\ last' = [msg |-> msg, before |-> m, cmd |-> r.cmd]
      /\ log.on => Len(log.msgs) < MaxLog
      /\ log' = IF log.on THEN [log EXCEPT !.msgs = Append(@, msg)] ELSE log
      /\ frame' = NoFrame
      /\ UNCHANGED status

\* the terminal layer reports a new window size
ResizeTo(sizes) ==
  /\ \E size \in sizes : Handle(WindowSizeMsg(size[1], size[2]))
  /\ UNCHANGED << timerPc, timerTick, outsideVars >>

\* the terminal layer reports a key press
KeyPressOf(keys) ==
  /\ \E k \in keys : Handle(KeyMsg(k))
  /\ UNCHANGED << timerPc, timerTick, outsideVars >>

Resize == ResizeTo(Sizes)

KeyPress == KeyPressOf(Keys)

\* mutant of TimerIncr: tick++ comes after the send, so the first count
\* sent is 0
TimerIncrAfterSend ==
  /\ timerPc \in {"start", "wait"}
  /\ timerTick < MaxTick
  /\ timerTick' = IF timerPc = "start" THEN timerTick ELSE timerTick + 1
  /\ timerPc' = "send"
  /\ UNCHANGED << m, status, quitCmd, ticks, last, log, frame, outsideVars >>

\* timer goroutine: tick++ at the top of its loop
TimerIncr ==
  /\ timerPc \in {"start", "wait"}
  /\ timerTick < MaxTick
  /\ timerTick' = timerTick + 1
  /\ timerPc' = "send"
  /\ UNCHANGED << m, status, quitCmd, ticks, last, log, frame, outsideVars >>

\* timer goroutine: p.Send(tickMsg(tick)) hands the message to the event loop
TimerSend ==
  /\ timerPc = "send"
  /\ status = "Running"
  /\ Handle(tickMsg(timerTick))
  /\ timerPc' = "wait"
  /\ UNCHANGED << timerTick, outsideVars >>

\* mutant of TimerSendDropped: p.Send waits for an event loop that has
\* returned, and the goroutine stays in it
TimerSendBlocked ==
  /\ timerPc = "send"
  /\ status = "Terminated"
  /\ timerPc' = "blocked"
  /\ UNCHANGED << m, status, quitCmd, timerTick, ticks, last, log, frame, outsideVars >>

\* timer goroutine: p.Send returns at once when the program has finished
TimerSendDropped ==
  /\ timerPc = "send"
  /\ status = "Terminated"
  /\ timerPc' = "wait"
  /\ UNCHANGED << m, status, quitCmd, timerTick, ticks, last, log, frame, outsideVars >>

\* the event loop receives the QuitMsg that tea.Quit produced, and returns
QuitMsg ==
  /\ status = "Running"
  /\ quitCmd
  /\ status' = "Terminated"
  /\ quitCmd' = FALSE
  /\ UNCHANGED << m, timerPc, timerTick, ticks, last, log, frame, outsideVars >>

Next ==
  \/ Resize
  \/ KeyPress
  \/ TimerIncr
  \/ TimerSend
  \/ TimerSendDropped
  \/ QuitMsg

Spec == Init /\ [][Next]_vars

(* ----------------------- one session, few inputs ----------------------- *)
\* the same session with one terminal, one window size and two keys
FrameTerms == {"xterm-256color"}
FrameSizes == {<< 80, 24 >>}
FrameKeys == {"q", "a"}

InitFrames == InitWith(FrameTerms, Addrs, FrameSizes) /\ LolcatIdle /\ Alone /\ Unobserved

ResizeFrames == ResizeTo(FrameSizes)

KeyPressFrames == KeyPressOf(FrameKeys)

NextFrames ==
  \/ ResizeFrames
  \/ KeyPressFrames
  \/ TimerIncr
  \/ TimerSend
  \/ TimerSendDropped
  \/ QuitMsg

SpecFrames == InitFrames /\ [][NextFrames]_vars

(* --------------------------- lolcat on its own ------------------------- *)
\* bytes of the texts: "A", newline, the two bytes of U+00E9, and 0xFF
Alphabet == {65, NL, 195, 169, 255}
Hues == {0, 120, 354}

RECURSIVE SeqsUpTo(_, _)
SeqsUpTo(S, n) ==
  IF n = 0 THEN {<< >>}
  ELSE LET shorter == SeqsUpTo(S, n - 1)
       IN  shorter \cup {Append(t, b) : t \in {u \in shorter : Len(u) = n - 1}, b \in S}

Texts == SeqsUpTo(Alphabet, MaxLen)
Colours == {NewHSV(h, 66, 100) : h \in Hues} \cup {NewHSV(200, 50, 80)}

InitLolcat ==
  /\ InitWith(FrameTerms, Addrs, FrameSizes)
  /\ text \in Texts
  /\ initial \in Colours
  /\ result = None
  /\ Alone
  /\ Unobserved

\* a call of lolcat(text, &initial, style)
CallLolcat ==
  /\ result = None
  /\ result' = lolcat(text, initial, NewStyle)
  /\ UNCHANGED << sessionVars, text, initial, peer, proc, log, frame >>

NextLolcat == CallLolcat

SpecLolcat == InitLolcat /\ [][NextLolcat]_vars

(* ---------------------- one session, frames drawn ---------------------- *)
\* View's receiver when View returns: View works on a copy of the model, and
\* lolcat is given a pointer to the colour of that copy
ViewReceiver(mdl) ==
  [mdl EXCEPT !.color = lolcat(graphic, mdl.color, mdl.style).initialColor]

\* the renderer calls View on the program's model and keeps the frame; the
\* copy View worked on is dropped, the program's model is the one Update
\* returned
Draw ==
  /\ status = "Running"
  /\ frame' = [drawn |-> TRUE, out |-> View(m), receiver |-> ViewReceiver(m)]
  /\ UNCHANGED << sessionVars, log, outsideVars >>

RenderAddrs == {[net |-> "tcp", ip |-> "192.0.2.7", port |-> 50022]}

InitRender ==
  /\ InitWith(FrameTerms, RenderAddrs, FrameSizes)
  /\ LolcatIdle
  /\ Alone
  /\ Unobserved

NextRender ==
  \/ ResizeFrames
  \/ KeyPressFrames
  \/ TimerIncr
  \/ TimerSend
  \/ TimerSendDropped
  \/ QuitMsg
  \/ Draw

SpecRender == InitRender /\ [][NextRender]_vars

(* ------------------- one session, its messages recorded ---------------- *)
InitSerial ==
  /\ InitWith(FrameTerms, Addrs, FrameSizes)
  /\ LolcatIdle
  /\ Alone
  /\ log = [on |-> TRUE, start |-> m, msgs |-> << >>]
  /\ frame = NoFrame

NextSerial ==
  \/ Resize
  \/ KeyPressFrames
  \/ TimerIncr
  \/ TimerSend
  \/ TimerSendDropped
  \/ QuitMsg

SpecSerial == InitSerial /\ [][NextSerial]_vars

(* ----------------------------- two sessions ---------------------------- *)
\* the session teaHandler and newProg set up for another connection: its own
\* model, its own program and its own timer goroutine with its own tick
NewSession(term, address, width, height) ==
  [m |-> NewModel(term, address, width, height),
   status |-> "Running", quitCmd |-> FALSE,
   timerPc |-> "start", timerTick |-> 0, ticks |-> 0]

\* the event loop of session s passes msg to Update
HandleIn(s, msg) ==
  LET r == Update(s.m, msg)
  IN  [s EXCEPT !.m = r.m,
                !.quitCmd = (s.quitCmd \/ r.cmd = Quit),
                !.ticks = IF msg.type = "tickMsg" THEN s.ticks + 1 ELSE s.ticks]

PeerAddrs == {[net |-> "tcp", ip |-> "198.51.100.9", port |-> 40000]}
PeerKeys == {"q", "a"}

firstVars == << sessionVars, log, frame >>

\* mutant of PeerTimerIncr: tick is declared once in the middleware, outside
\* the goroutine, so that all timer goroutines count on the same variable
PeerTimerIncrShared ==
  /\ peer.timerPc \in {"start", "wait"}
  /\ timerTick < MaxTick
  /\ timerTick' = timerTick + 1
  /\ peer' = [peer EXCEPT !.timerTick = timerTick + 1, !.timerPc = "send"]
  /\ UNCHANGED << m, status, quitCmd, timerPc, ticks, last, log, frame, lolcatVars, proc >>

PeerResize ==
  /\ peer.status = "Running"
  /\ \E size \in Sizes : peer' = HandleIn(peer, WindowSizeMsg(size[1], size[2]))
  /\ UNCHANGED << firstVars, lolcatVars, proc >>

PeerKeyPress ==
  /\ peer.status = "Running"
  /\ \E k \in PeerKeys : peer' = HandleIn(peer, KeyMsg(k))
  /\ UNCHANGED << firstVars, lolcatVars, proc >>

PeerTimerIncr ==
  /\ peer.timerPc \in {"start", "wait"}
  /\ peer.timerTick < MaxTick
  /\ peer' = [peer EXCEPT !.timerTick = @ + 1, !.timerPc = "send"]
  /\ UNCHANGED << firstVars, lolcatVars, proc >>

PeerTimerSend ==
  /\ peer.timerPc = "send"
  /\ peer.status = "Running"
  /\ peer' = [HandleIn(peer, tickMsg(peer.timerTick)) EXCEPT !.timerPc = "wait"]
  /\ UNCHANGED << firstVars, lolcatVars, proc >>

PeerTimerSendDropped ==
  /\ peer.timerPc = "send"
  /\ peer.status = "Terminated"
  /\ peer' = [peer EXCEPT !.timerPc = "wait"]
  /\ UNCHANGED << firstVars, lolcatVars, proc >>

PeerQuitMsg ==
  /\ peer.status = "Running"
  /\ peer.quitCmd
  /\ peer' = [peer EXCEPT !.status = "Terminated", !.quitCmd = FALSE]
  /\ UNCHANGED << firstVars, lolcatVars, proc >>

InitSessions ==
  /\ InitWith(FrameTerms, Addrs, FrameSizes)
  /\ LolcatIdle
  /\ \E term \in FrameTerms, address \in PeerAddrs, size \in Sizes :
       peer = NewSession(term, address, size[1], size[2])
  /\ proc = None
  /\ Unobserved

NextSessions ==
  \/ ResizeFrames
  \/ KeyPressFrames
  \/ TimerIncr
  \/ TimerSend
  \/ TimerSendDropped
  \/ QuitMsg
  \/ PeerResize
  \/ PeerKeyPress
  \/ PeerTimerIncr
  \/ PeerTimerSend
  \/ PeerTimerSendDropped
  \/ PeerQuitMsg

SpecSessions == InitSessions /\ [][NextSessions]_vars

(* ------------------------------ the process --------------------------- *)
\* bound on the signals sent to the process
MaxSignals == 2

Signals == {"SIGINT", "SIGTERM"}
NilServer == "nil *ssh.Server"
Server == "*ssh.Server"

\* main before wish.NewServer: no server, no channel, no goroutine
NewProcess ==
  [type |-> "main", pc |-> "NewServer", s |-> Nil, err |-> Nil, notify |-> FALSE,
   done |-> << >>, received |-> 0, ls |-> "none", listenErr |-> FALSE,
   closed |-> FALSE, shutdowns |-> 0, panic |-> FALSE]

\* the process is over when main has returned or a goroutine has panicked
Over == proc.pc = "returned" \/ proc.panic

sessionIdle == UNCHANGED << firstVars, lolcatVars, peer >>

\* wish.NewServer returns the server
NewServerOk ==
  /\ ~ Over /\ proc.pc = "NewServer"
  /\ proc' = [proc EXCEPT !.s = Server, !.pc = "Notify"]
  /\ sessionIdle

\* wish.NewServer returns no server and an error (a host key file that
\* cannot be read, an option that fails); the error is logged and main goes on
NewServerErr ==
  /\ ~ Over /\ proc.pc = "NewServer"
  /\ proc' = [proc EXCEPT !.s = NilServer, !.err = "error", !.pc = "Notify"]
  /\ sessionIdle

\* done := make(chan os.Signal, 1); signal.Notify(done, ...)
Notify ==
  /\ ~ Over /\ proc.pc = "Notify"
  /\ proc' = [proc EXCEPT !.notify = TRUE, !.pc = "go"]
  /\ sessionIdle

\* go func() { ... }()
GoListen ==
  /\ ~ Over /\ proc.pc = "go"
  /\ proc' = [proc EXCEPT !.ls = "ListenAndServe", !.pc = "wait"]
  /\ sessionIdle

\* a signal arrives: the runtime puts it into done unless done is full
Signal ==
  /\ ~ Over /\ proc.notify
  /\ proc.received < MaxSignals
  /\ \E sig \in Signals :
       proc' = [proc EXCEPT !.received = @ + 1,
                            !.done = IF Len(@) < 1 THEN Append(@, sig) ELSE @]
  /\ sessionIdle

\* s.ListenAndServe() on the server: it listens and serves
ListenStart ==
  /\ ~ Over /\ proc.ls = "ListenAndServe"
  /\ proc.s = Server /\ ~ proc.closed
  /\ proc' = [proc EXCEPT !.ls = "serving"]
  /\ sessionIdle

\* s.ListenAndServe() returns an error other than ErrServerClosed (the port
\* cannot be bound, or accepting fails later)
ListenFail ==
  /\ ~ Over /\ proc.ls \in {"ListenAndServe", "serving"}
  /\ proc.s = Server /\ ~ proc.closed
  /\ proc' = [proc EXCEPT !.ls = "send", !.listenErr = TRUE, !.err = "error"]
  /\ sessionIdle

\* s.ListenAndServe() returns ErrServerClosed after Shutdown: the goroutine ends
ListenClosed ==
  /\ ~ Over /\ proc.ls \in {"ListenAndServe", "serving"}
  /\ proc.s = Server /\ proc.closed
  /\ proc' = [proc EXCEPT !.ls = "ended", !.err = "ErrServerClosed"]
  /\ sessionIdle

\* s.ListenAndServe() on the nil server: the goroutine panics
ListenNil ==
  /\ ~ Over /\ proc.ls = "ListenAndServe"
  /\ proc.s = NilServer
  /\ proc' = [proc EXCEPT !.ls = "panic", !.panic = TRUE]
  /\ sessionIdle

\* done <- nil, which waits while done is full
SendNil ==
  /\ ~ Over /\ proc.ls = "send"
  /\ Len(proc.done) < 1
  /\ proc' = [proc EXCEPT !.done = Append(@, Nil), !.ls = "ended"]
  /\ sessionIdle

\* <-done
Receive ==
  /\ ~ Over /\ proc.pc = "wait"
  /\ proc.done # << >>
  /\ proc' = [proc EXCEPT !.done = Tail(@), !.pc = "Shutdown"]
  /\ sessionIdle

\* s.Shutdown(ctx) on the server is called: it closes the listener
Shutdown ==
  /\ ~ Over /\ proc.pc = "Shutdown"
  /\ proc.s = Server
  /\ proc' = [proc EXCEPT !.shutdowns = @ + 1, !.closed = TRUE, !.pc = "return"]
  /\ sessionIdle

\* s.Shutdown(ctx) returns, at the latest when ctx expires, and main returns
Return ==
  /\ ~ Over /\ proc.pc = "return"
  /\ proc' = [proc EXCEPT !.pc = "returned"]
  /\ sessionIdle

\* s.Shutdown(ctx) on the nil server: main panics
ShutdownNil ==
  /\ ~ Over /\ proc.pc = "Shutdown"
  /\ proc.s = NilServer
  /\ proc' = [proc EXCEPT !.pc = "panic", !.panic = TRUE]
  /\ sessionIdle

\* no connection has been accepted: there is no session
NoSession ==
  /\ m = None /\ status = "none" /\ quitCmd = FALSE
  /\ timerPc = "none" /\ timerTick = 0 /\ ticks = 0 /\ last = None

InitMain ==
  /\ NoSession
  /\ LolcatIdle
  /\ peer = None
  /\ Unobserved
  /\ proc = NewProcess

NextMain ==
  \/ NewServerOk
  \/ NewServerErr
  \/ Notify
  \/ GoListen
  \/ Signal
  \/ ListenStart
  \/ ListenFail
  \/ ListenClosed
  \/ ListenNil
  \/ SendNil
  \/ Receive
  \/ Shutdown
  \/ Return
  \/ ShutdownNil

SpecMain == InitMain /\ [][NextMain]_vars

(* ======================= properties of a session ====================== *)
\* C1: in every Running state, Update on the key "q" and on the key "ctrl+c"
\* returns the quit command, and Update on any other key returns no command
\* and the model unchanged in every field; the same holds of the key press
\* the event loop handled last.
C1_QuitKeys ==
  /\ status = "Running" =>
       \A k \in Keys :
         LET r == Update(m, KeyMsg(k))
         IN  IF k = "q" \/ k = "ctrl+c" THEN r.cmd = Quit
             ELSE r.cmd = Nil /\ r.m = m
  /\ last # None /\ last.msg.type = "KeyMsg" =>
       IF last.msg.key = "q" \/ last.msg.key = "ctrl+c" THEN last.cmd = Quit
       ELSE last.cmd = Nil /\ m = last.before

\* a quit key has been handled, then ticks, and last of all the key "a"
C1_Witness ==
  /\ status = "Running"
  /\ quitCmd
  /\ ticks >= 2
  /\ last # None /\ last.msg = KeyMsg("a")

\* C2: Update on a tick message with count n sets tick to n and turns the
\* hue of the colour by 40 degrees modulo 360, and changes no other field
\* (saturation, value, width, height, term, address, styles); after N tick
\* messages, whatever resizes and key presses came between them, the hue is
\* (0 + N * 40) mod 360, 0 being the hue the session starts with.
C2_TickRotates ==
  /\ \A n \in 0 .. MaxTick + 1 :
       LET r == Update(m, tickMsg(n))
       IN  /\ r.cmd = Nil
           /\ r.m = [m EXCEPT !.tick = n, !.color.h = (m.color.h + 40) % 360]
  /\ last # None /\ last.msg.type = "tickMsg" =>
       m = [last.before EXCEPT !.tick = last.msg.n,
                               !.color.h = (last.before.color.h + 40) % 360]
  /\ m.color.h = (0 + ticks * 40) % 360

\* ten ticks have been handled, so the hue has wrapped past 360 once
C2_Witness ==
  /\ ticks = 10
  /\ last # None /\ last.msg = tickMsg(10)
  /\ last.before.color.h = 0
  /\ m.color.h = 40

\* C4: Update on a window size message sets width and height to the
\* message's, returns no command (the session goes on running) and leaves
\* term, address, tick, colour and the three styles as they were.
C4_ResizeFrame ==
  /\ \A size \in Sizes :
       LET r == Update(m, WindowSizeMsg(size[1], size[2]))
       IN  /\ r.cmd = Nil
           /\ r.m = [m EXCEPT !.width = size[1], !.height = size[2]]
  /\ last # None /\ last.msg.type = "WindowSizeMsg" =>
       /\ m.width = last.msg.Width
       /\ m.height = last.msg.Height
       /\ m.term = last.before.term
       /\ m.address = last.before.address
       /\ m.tick = last.before.tick
       /\ m.color = last.before.color
       /\ m.style = last.before.style
       /\ m.txtStyle = last.before.txtStyle
       /\ m.quitStyle = last.before.quitStyle
       /\ last.cmd = Nil

\* an 80x24 window has been resized to 132x50 after some ticks
C4_Witness ==
  /\ status = "Running"
  /\ last # None /\ last.msg = WindowSizeMsg(132, 50)
  /\ last.before.width = 80 /\ last.before.height = 24
  /\ m.tick = 3 /\ m.color.h = 120

\* C5: a session is Running or Terminated and starts Running; it leaves
\* Running only after Update has returned the quit command, which it does
\* only for the keys "q" and "ctrl+c"; once Terminated it stays Terminated
\* and no message is passed to Update any more, so the model stays as it
\* is while the timer goroutine goes on.
C5_Step ==
  /\ status \in {"Running", "Terminated"}
  /\ status' \in {"Running", "Terminated"}
  /\ (status = "Running" /\ status' = "Terminated") => quitCmd
  /\ (~quitCmd /\ quitCmd') =>
       /\ last' # None
       /\ last'.msg \in {KeyMsg("q"), KeyMsg("ctrl+c")}
       /\ last' # last
  /\ quitCmd => (quitCmd' \/ status' = "Terminated")
  /\ status = "Terminated" =>
       /\ status' = "Terminated"
       /\ m' = m
       /\ ticks' = ticks
       /\ last' = last
       /\ ~quitCmd'

C5_StateMachine == (status = "Running") /\ [][C5_Step]_vars

\* a terminated session whose timer goroutine has gone on counting and
\* whose last handled message is a tick that came after the quit key
C5_Witness ==
  /\ status = "Terminated"
  /\ last # None /\ last.msg.type = "tickMsg"
  /\ timerTick > m.tick + 1
  /\ timerPc = "wait"

\* the hue of the foreground of a styled output element
HueOf(el) == el.fg[2][2]

\* C3: the hue of the session's colour is in [0,360) in every state, and so
\* is the hue of rowColor and of charColor at every point of lolcat's run
\* over the banner (each is the foreground of a drawn character or the
\* cursor left at the end); a rotation by step, angle or gradient gives
\* (h + amount) mod 360, so the ninth tick brings the hue to 0, not 360.
C3_HueRange ==
  /\ m.color.h \in 0 .. 359
  /\ \A amount \in {step, angle, gradient} :
       AdjustHue(m.color, amount).h = (m.color.h + amount) % 360
  /\ (ticks = 9 => m.color.h = 0)
  /\ LET r == lolcat(graphic, m.color, m.style)
     IN  /\ r.rowColor.h \in 0 .. 359
         /\ r.charColor.h \in 0 .. 359
         /\ \A i \in 1 .. Len(r.out) : r.out[i].styled => HueOf(r.out[i]) \in 0 .. 359

\* the ninth tick has just been handled, from hue 320
C3_Witness ==
  /\ ticks = 9
  /\ last # None /\ last.msg = tickMsg(9)
  /\ last.before.color.h = 320
  /\ m.color.h = 0

(* ============================ properties of lolcat ==================== *)
\* the runes of the text of SpecLolcat
TextRunes == Runes(text)

\* number of newlines before rune i of rs, and number of runes between the
\* last of them and rune i
RowOf(rs, i) == Cardinality({j \in 1 .. i - 1 : rs[j] = NL})
ColOf(rs, i) ==
  LET nls == {j \in 1 .. i - 1 : rs[j] = NL}
  IN  IF nls = {} THEN i - 1 ELSE i - 1 - (CHOOSE j \in nls : \A l \in nls : l <= j)

\* a character drawn with foreground hsvToHex(h, s, v)
Styled(h, s, v, bytes) ==
  [styled |-> TRUE, fg |-> << "#", << "hex", h, s, v >> >>, text |-> bytes]
Unstyled(bytes) == [styled |-> FALSE, fg |-> << "none" >>, text |-> bytes]

\* C6: lolcat draws the k-th character (from 0) of row r (from 0), a row
\* ending at each newline, with the foreground hue (h0 + r * 6 + k * 6) mod
\* 360 and the saturation and value of the initial colour.
C6_CharHue ==
  result # None =>
    /\ Len(result.out) = Len(TextRunes)
    /\ \A i \in 1 .. Len(TextRunes) :
         TextRunes[i] # NL =>
           result.out[i] =
             Styled((initial.h + RowOf(TextRunes, i) * 6 + ColOf(TextRunes, i) * 6) % 360,
                    initial.s, initial.v, EncodeRune(TextRunes[i]))

\* lolcat has drawn "AA\nA" from hue 354: the hues are 354, 0 and 0
C6_Witness ==
  /\ result # None
  /\ text = << 65, 65, NL, 65 >>
  /\ initial.h = 354
  /\ result.out[2].fg[2][2] = 0
  /\ result.out[4].fg[2][2] = 0

\* other values the gradient could have
OtherGradients == {0, 6, 7, 13}

\* C7: lolcat writes every newline without style; a newline turns rowColor
\* by the angle and sets charColor to rowColor without turning it by the
\* gradient, so that after the text rowColor is h0 plus the angle for each
\* newline whatever the gradient is, and charColor is rowColor plus the
\* gradient for each character after the last newline; for "\n\n" the
\* output is two newlines without style, rowColor is (h0 + 2 * angle) mod 360
\* and the whole result is the same for every gradient.
C7_Newline ==
  result # None =>
    LET n == Len(TextRunes)
        nls == RowOf(TextRunes, n + 1)
        after == ColOf(TextRunes, n + 1)
    IN  /\ \A i \in 1 .. n : TextRunes[i] = NL => result.out[i] = Unstyled(<< NL >>)
        /\ result.rowColor = [initial EXCEPT !.h = (initial.h + nls * angle) % 360]
        /\ \A g \in OtherGradients :
             LET r == lolcatWith(text, initial, NewStyle, angle, g)
             IN  /\ r.rowColor = result.rowColor
                 /\ r.charColor =
                      [initial EXCEPT !.h = (initial.h + nls * angle + after * g) % 360]
        /\ text = << NL, NL >> =>
             /\ result.out = << Unstyled(<< NL >>), Unstyled(<< NL >>) >>
             /\ result.rowColor.h = (initial.h + 2 * 6) % 360
             /\ result.charColor = result.rowColor
             /\ \A g \in OtherGradients :
                  lolcatWith(text, initial, NewStyle, angle, g) = result

\* lolcat has drawn "\n\n" from hue 354
C7_Witness ==
  /\ result # None
  /\ text = << NL, NL >>
  /\ initial.h = 354
  /\ result.rowColor.h = 6

\* the output with the styling taken away: the bytes of its elements
RECURSIVE StripFrom(_, _)
StripFrom(out, i) == IF i > Len(out) THEN << >> ELSE out[i].text \o StripFrom(out, i + 1)
StripStyle(out) == StripFrom(out, 1)

\* s is well-formed UTF-8: no byte of it decodes as an error
RECURSIVE ValidFrom(_, _)
ValidFrom(s, i) ==
  IF i > Len(s) THEN TRUE
  ELSE LET d == DecodeRune(s, i)
       IN  (s[i] < 128 \/ d.size > 1) /\ ValidFrom(s, i + d.size)
ValidUTF8(s) == ValidFrom(s, 1)

\* C8, as the claim states it: one output element for each code point and
\* the output without its styling is the input text, whatever the text.
C8_Original ==
  result # None =>
    /\ Len(result.out) = Len(TextRunes)
    /\ StripStyle(result.out) = text
    /\ (text = << >> => result.out = << >>)

\* C8, amended: lolcat writes one element for each rune of []rune(text), in
\* order, holding that rune's UTF-8 encoding; for a text that is well-formed
\* UTF-8 the output without its styling is the text (blank lines included),
\* while each byte that is not part of a well-formed sequence comes out as
\* U+FFFD, so the output differs from such a text; the empty text gives the
\* empty output.
C8_Structure ==
  result # None =>
    /\ Len(result.out) = Len(TextRunes)
    /\ \A i \in 1 .. Len(TextRunes) : result.out[i].text = EncodeRune(TextRunes[i])
    /\ (ValidUTF8(text) => StripStyle(result.out) = text)
    /\ (~ValidUTF8(text) => StripStyle(result.out) # text)
    /\ (text = << >> => result.out = << >>)

\* lolcat has drawn a two-byte character followed by a blank line
C8_Witness ==
  /\ result # None
  /\ text = << 195, 169, NL, NL >>
  /\ Len(result.out) = 3
  /\ StripStyle(result.out) = text

(* ============================ properties of View ====================== *)
\* the runes of the banner, and the row and column of each
GraphicRunes == Runes(graphic)
GraphicRow == [i \in 1 .. Len(GraphicRunes) |-> RowOf(GraphicRunes, i)]
GraphicCol == [i \in 1 .. Len(GraphicRunes) |-> ColOf(GraphicRunes, i)]

\* C9: the frame View returns is, in this order, the banner drawn as lolcat
\* draws it from the model's current colour, a newline, the line "Your IP
\* is <ip of the remote address>" in the text style, a newline, and the hint
\* "Press 'q' to quit" (with the newline that ends it) in the quit style.
C9_ViewSections ==
  LET v == View(m)
      n == Len(GraphicRunes)
  IN  /\ Len(v) = n + 4
      /\ \A i \in 1 .. n :
           v[i] = IF GraphicRunes[i] = NL THEN Unstyled(<< NL >>)
                  ELSE Styled((m.color.h + 6 * GraphicRow[i] + 6 * GraphicCol[i]) % 360,
                              m.color.s, m.color.v, EncodeRune(GraphicRunes[i]))
      /\ v[n + 1] = Unstyled(<< NL >>)
      /\ v[n + 2] = [styled |-> TRUE, fg |-> << "10" >>,
                     text |-> << "Your IP is ", m.address.ip >>]
      /\ v[n + 3] = Unstyled(<< NL >>)
      /\ v[n + 4] = [styled |-> TRUE, fg |-> << "8" >>,
                     text |-> << "Press 'q' to quit", NL >>]

\* a frame of the session from 2001:db8::1 after four ticks
C9_Witness ==
  /\ status = "Running"
  /\ m.address.ip = "2001:db8::1"
  /\ ticks = 4 /\ m.color.h = 160
  /\ last # None /\ last.msg = tickMsg(4)

\* C10: after k ticks from the initial colour (hue 0, saturation 66, value
\* 100) the first character of the banner in the frame is drawn with
\* hsvToHex((40 * k) mod 360, 66, 100); after 3 ticks the hue is 120 and the
\* one-character banner "A" is drawn with hsvToHex(120, 66, 100).
C10_FirstChar ==
  /\ View(m)[1] = Styled((40 * ticks) % 360, 66, 100, EncodeRune(GraphicRunes[1]))
  /\ ticks = 3 =>
       /\ m.color.h = 120
       /\ lolcat(<< 65 >>, m.color, m.style).out = << Styled(120, 66, 100, << 65 >>) >>

\* three ticks have been handled
C10_Witness ==
  /\ ticks = 3
  /\ last # None /\ last.msg = tickMsg(3)
  /\ m.color = [h |-> 120, s |-> 66, v |-> 100]

(* ========================= properties of two sessions ================= *)
\* C11: with two sessions running side by side, a step of one session (a
\* tick, a resize, a key press, its quit, a step of its timer goroutine)
\* leaves the model, the status, the timer and the tick counter of the other
\* as they were; each session's tick count and hue follow its own timer.
C11_Step ==
  /\ peer' # peer => UNCHANGED sessionVars
  /\ sessionVars' # sessionVars => peer' = peer

C11_Own ==
  /\ m.tick = ticks /\ m.color.h = (40 * ticks) % 360
  /\ peer.m.tick = peer.ticks /\ peer.m.color.h = (40 * peer.ticks) % 360
  /\ timerTick - ticks \in {0, 1} \/ status = "Terminated"
  /\ peer.timerTick - peer.ticks \in {0, 1} \/ peer.status = "Terminated"

C11_Independent == [][C11_Step]_vars /\ []C11_Own

\* one session has quit after one tick while the other runs on, three ticks
\* in and with another window size
C11_Witness ==
  /\ status = "Terminated" /\ ticks = 1
  /\ peer.status = "Running" /\ peer.ticks = 3
  /\ peer.m.width # m.width
  /\ peer.timerTick # timerTick

(* ===================== properties of the message order ================ *)
\* Update applied to the messages of msgs one after the other, from mdl
RECURSIVE Replay(_, _)
Replay(mdl, msgs) ==
  IF msgs = << >> THEN mdl
  ELSE Update(Replay(mdl, SubSeq(msgs, 1, Len(msgs) - 1)), msgs[Len(msgs)]).m

IsTick(msg) == msg.type = "tickMsg"
IsResize(msg) == msg.type = "WindowSizeMsg"

\* C12: whatever way the ticks of the timer goroutine and the resizes and
\* key presses of the terminal layer interleave, the model is what Update
\* gives when applied to the handled messages one at a time in the order
\* they were handled; no effect is lost (the size is that of the last resize
\* and the hue has turned once for each tick), every tick the timer has sent
\* has been applied, and the ticks were applied in the order 1, 2, 3, ...
C12_Serialized ==
  LET ts == SelectSeq(log.msgs, IsTick)
      rs == SelectSeq(log.msgs, IsResize)
  IN  /\ m = Replay(log.start, log.msgs)
      /\ \A i \in 1 .. Len(ts) : ts[i] = tickMsg(i)
      /\ Len(ts) = ticks
      /\ status = "Running" => timerTick = Len(ts) + (IF timerPc = "send" THEN 1 ELSE 0)
      /\ m.tick = Len(ts)
      /\ m.color.h = (log.start.color.h + 40 * Len(ts)) % 360
      /\ IF rs = << >>
           THEN m.width = log.start.width /\ m.height = log.start.height
           ELSE m.width = rs[Len(rs)].Width /\ m.height = rs[Len(rs)].Height

\* a resize has been handled between two ticks while the next tick waits to
\* be taken: the model has the new size and the hue of two ticks
C12_Witness ==
  /\ log.on
  /\ log.msgs = << tickMsg(1), WindowSizeMsg(132, 50), tickMsg(2), KeyMsg("a") >>
  /\ timerPc = "send" /\ timerTick = 3
  /\ m.width = 132 /\ m.height = 50 /\ m.color.h = 80

(* ========================= properties of failure ====================== *)
\* the messages a program can hand to Update, one of a type Update has no
\* case for among them
AnyMsgs ==
  {WindowSizeMsg(sz[1], sz[2]) : sz \in Sizes}
    \cup {KeyMsg(k) : k \in Keys}
    \cup {tickMsg(n) : n \in 1 .. MaxTick + 1}
    \cup {[type |-> "MouseMsg"]}

C15_TimerRuns ==
  /\ timerPc \in {"start", "send", "wait"}
  /\ (status = "Running" /\ timerPc = "send" /\ (log.on => Len(log.msgs) < MaxLog))
       => ENABLED TimerSend
  /\ (status = "Terminated" /\ timerPc = "send") => ENABLED TimerSendDropped
  /\ (status = "Terminated" /\ timerPc \in {"start", "wait"} /\ timerTick < MaxTick)
       => ENABLED TimerIncr
  /\ status = "Terminated" => ~ ENABLED TimerSend

\* the session has terminated after one tick, and the timer has gone round
\* its loop three more times and is at a send again
C15_Witness ==
  /\ status = "Terminated"
  /\ ticks = 1
  /\ timerTick = 5
  /\ timerPc = "send"

(* ========================= properties of main ========================= *)
\* a signal has been received or the listener has failed
Triggered == proc.received > 0 \/ proc.listenErr

ShutsDown ==
  /\ proc.shutdowns > 0 => Triggered
  /\ proc.shutdowns <= 1
  /\ proc.pc = "returned" => proc.shutdowns = 1
  /\ (Triggered /\ ~ Over) =>
       \/ ENABLED GoListen \/ ENABLED Receive \/ ENABLED Shutdown
       \/ ENABLED ShutdownNil \/ ENABLED Return \/ ENABLED SendNil
  /\ (Triggered /\ Over) => proc.pc = "returned"

\* C16: main does not call Shutdown before a signal has been received or the
\* listener has failed with an error other than ErrServerClosed; once one of
\* the two has happened main or the sending goroutine can always take its
\* next step, main calls Shutdown once, and the process ends by main
\* returning after that one call.
C16_ShutsDown == proc.type = "main" => ShutsDown

\* the same for a process whose wish.NewServer returned a server
C16_WithServer == (proc.type = "main" /\ proc.s = Server) => ShutsDown

(* ========================= properties of rendering ==================== *)
\* C17: a call of View changes nothing of the session: the frame drawn since
\* the last message is the frame View gives now (so two frames drawn between
\* the same two messages are the same), lolcat leaves the colour it is given
\* a pointer to as it was, even in the copy of the model View works on, and
\* the hue after the next tick is 40 more than the hue before, as without a
\* frame drawn; a step that draws a frame changes no field of the session.
C17_Step == frame' # frame /\ frame'.drawn => UNCHANGED sessionVars

C17_Inv ==
  /\ m.color.h = (40 * ticks) % 360
  /\ frame.drawn =>
       /\ frame.out = View(m)
       /\ frame.receiver = m
       /\ lolcat(graphic, m.color, m.style).initialColor = m.color
       /\ Update(frame.receiver, tickMsg(ticks + 1)).m.color.h = (40 * (ticks + 1)) % 360

C17_RenderPure == [][C17_Step]_vars /\ []C17_Inv

\* a frame is drawn after three ticks, the third the last message handled
C17_Witness ==
  /\ status = "Running"
  /\ frame.drawn
  /\ ticks = 3 /\ m.color.h = 120
  /\ last # None /\ last.msg = tickMsg(3)
  /\ frame.receiver.color.h = 120

(* ========================= properties of the count ==================== *)
NineHues == {40 * i : i \in 0 .. 8}

\* the next k tick messages of the timer
NextTicks(k) == [i \in 1 .. k |-> tickMsg(ticks + i)]

\* C18: the counts the timer sends are 1, 2, 3, ...: the count goes up by one
\* for each send, from 0, and the k-th tick handled carries the count k. So
\* tick is the number of ticks handled (0 before the first), the hue is
\* (40 * tick) mod 360, one of the nine values 0, 40, ..., 320, and the hue
\* is the same again after nine more ticks and not after fewer.
C18_Step ==
  /\ timerTick' # timerTick => timerTick' = timerTick + 1
  /\ ticks' # ticks =>
       /\ ticks' = ticks + 1
       /\ last'.msg = tickMsg(ticks')
       /\ timerTick = ticks'

C18_Inv ==
  /\ m.tick = ticks
  /\ ticks = 0 => m.tick = 0 /\ m.color.h = 0
  /\ m.color.h = (40 * m.tick) % 360
  /\ m.color.h \in NineHues
  /\ Replay(m, NextTicks(9)).color.h = m.color.h
  /\ \A k \in 1 .. 8 : Replay(m, NextTicks(k)).color.h # m.color.h

C18_Counts == [][C18_Step]_vars /\ []C18_Inv

\* nine ticks have been handled and the hue is 0 again, the tenth is being
\* sent
C18_Witness ==
  /\ status = "Running"
  /\ ticks = 9 /\ m.tick = 9 /\ m.color.h = 0
  /\ timerPc = "send" /\ timerTick = 10

=============================================================================
